---- MODULE Spec2Model ----
(***************************************************************************)
(* Model of the build orchestration pipeline of federalist-garden-build:   *)
(* tasks/main.py main(), its deadline scope (stopit SignalTimeout), the    *)
(* stage calls it makes and the status notifications it sends.             *)
(*                                                                         *)
(* One run of main() is one behaviour.  trace is the history of the calls  *)
(* main() has made (stages, notifier calls, log lines, the alarm firing),  *)
(* in program order.  A call that blocks (a stage or a notifier call) is   *)
(* modelled by two steps, its start and its return or raise, so that the   *)
(* alarm can fire while the call is in progress.                           *)
(***************************************************************************)
EXTENDS Naturals, Sequences, FiniteSets

\* Longest USER_ENVIRONMENT_VARIABLES list explored.
MaxUevs == 2

\* Longest branch / owner / repository value explored, in characters.
MaxLen == 3

VARIABLES
    GENERATOR,                    \* os.environ['GENERATOR']
    USER_ENVIRONMENT_VARIABLES,   \* the ciphertexts, in input order
    GITHUB_TOKEN,                 \* os.getenv('GITHUB_TOKEN', '')
    decrypted_uevs,               \* the decrypted values, in input order
    priv_vals,                    \* the list handed to init_logging, <<>> before
    pc,                           \* position of main()
    timer,                        \* the SIGALRM deadline of `with Timeout`
    inflight,                     \* the blocking call in progress, or "none"
    return_code,                  \* <<rc>> once fetch_repo returned rc, <<>> before
    exc,                          \* the exception being handled / propagated
    finished,                     \* stages that returned normally, in order
    trace,                        \* calls made so far, in program order
    outcome,                      \* how main() ended
    params,                       \* the BuildRequest: parameter name -> value
    kwargs,                       \* the keyword set handed to build()
    warned,                       \* the names a warning was printed for
    san_pc,                       \* position of the entry script
    q_value,                      \* a branch / owner / repository value as supplied
    q_sanitized,                  \* the value after the entry script quoted it
    q_command,                    \* a command line the value was put into
    q_use,                        \* how: "direct" interpolation, or a run_task "flag"
    q_lex,                        \* the shell reading the command: its lexer state
    q_i,                          \* and the number of characters it has read
    q_tokens,                     \* the words the shell splits the command into
    q_pc                          \* position of the value on its way to the shell

vars == <<GENERATOR, USER_ENVIRONMENT_VARIABLES, GITHUB_TOKEN, decrypted_uevs,
          priv_vals, pc, timer, inflight, return_code, exc, finished, trace,
          outcome, params, kwargs, warned, san_pc, q_value, q_sanitized,
          q_command, q_use, q_lex, q_i, q_tokens, q_pc>>

\* the entry script's state
sanvars == <<params, kwargs, warned, san_pc>>

\* a value on its way to the shell
qvars == <<q_value, q_sanitized, q_command, q_use, q_lex, q_i, q_tokens, q_pc>>

\* what main() only reads
env == <<GENERATOR, USER_ENVIRONMENT_VARIABLES, GITHUB_TOKEN, sanvars, qvars>>

\* main()'s own state
mainvars == <<GENERATOR, USER_ENVIRONMENT_VARIABLES, GITHUB_TOKEN, decrypted_uevs,
              priv_vals, pc, timer, inflight, return_code, exc, finished, trace,
              outcome>>

----------------------------------------------------------------------------
(* Inputs *)

Generators == {"jekyll", "hugo", "static", "node.js", "script only", "bogus"}

Ciphertexts == {"enc:s1", "enc:s2", "corrupt"}

\* fetch_repo's return codes: success, and two different failures
ReturnCodes == {0, 1, 128}

BUILD_INFO == "owner/repo@id:1"

\* GITHUB_TOKEN: empty for a build started by a non-Federalist user
Tokens == {"", "ghtoken"}

AWS_ACCESS_KEY_ID == "AKIAKEY"

AWS_SECRET_ACCESS_KEY == "awssecret"

RECURSIVE SeqsUpTo(_, _)
SeqsUpTo(S, n) ==
    IF n = 0 THEN {<<>>}
    ELSE LET shorter == SeqsUpTo(S, n - 1)
         IN  shorter \cup {Append(s, x) : s \in {t \in shorter : Len(t) = n - 1}, x \in S}

----------------------------------------------------------------------------
(* Exceptions *)

Exc(cls, text) == [cls |-> cls, text |-> text]

NoExc == Exc("none", "")

TimeoutException == Exc("TimeoutException", "")

DecryptionError == Exc("DecryptionError", "bad key or corrupt ciphertext")

SystemExit == Exc("SystemExit", "1")

\* what a build or publish stage may raise: invoke's UnexpectedExit carrying
\* the failure detail, or anything else
\* (the detail quotes the command and its output, which may echo a credential)
UnexpectedExits ==
    {Exc("UnexpectedExit", d) : d \in {"exit code 1", "exit code 2", AWS_SECRET_ACCESS_KEY}}

OtherErrors == {Exc("Exception", "stage blew up")}

StageErrors == UnexpectedExits \cup OtherErrors

\* what a notifier call (an HTTP post) may raise
NotifierError == Exc("Exception", "callback unreachable")

ValueError(g) == Exc("ValueError", "Invalid GENERATOR: " \o g)

----------------------------------------------------------------------------
(* Pure parts of main() *)

\* crypto.decrypt: the plaintext, or a failure for a bad ciphertext
decrypt(c) ==
    CASE c = "enc:s1" -> "s1"
      [] c = "enc:s2" -> "s2"
      [] OTHER        -> "DecryptionError"

\* a comprehension that keeps going when a value fails to decrypt
DecryptFailsIgnored(uevs) == FALSE

\* the list comprehension over decrypt raises as soon as one call raises
DecryptFails(uevs) == \E i \in DOMAIN uevs : decrypt(uevs[i]) = "DecryptionError"

\* a private_values that forgets the source-control token
private_valuesNoToken(user_values) ==
    <<AWS_ACCESS_KEY_ID, AWS_SECRET_ACCESS_KEY>> \o user_values

\* a private_values that appends the token without testing it
private_valuesAlwaysToken(user_values) ==
    <<AWS_ACCESS_KEY_ID, AWS_SECRET_ACCESS_KEY, GITHUB_TOKEN>> \o user_values

private_values(user_values) ==
    <<AWS_ACCESS_KEY_ID, AWS_SECRET_ACCESS_KEY>>
        \o (IF GITHUB_TOKEN # "" THEN <<GITHUB_TOKEN>> ELSE <<>>)
        \o user_values

\* The fixed message of a fetch failure
FetchMsg ==
    <<"There was a problem fetching the repository, see the above logs for details.">>

\* a catch-all handler that forwards the exception text to the callback
GenericMsgLeaky(info, err_string) ==
    <<"Unexpected build(", info, ") error: ", err_string>>

\* err_message of the catch-all handler
GenericMsg(info, err_string) ==
    <<"Unexpected build(", info,
      ") error. Please try again and contact federalist-support if it persists.">>

\* str(err)
Str(e) == e.text

\* build_flags as main() first builds it
BaseFlags == {"--branch", "--owner", "--repository", "--site-prefix",
              "--base-url", "--user-env-vars"}

\* a dispatch without the else branch: an unknown generator is a no-op
GeneratorTaskLenient(g) ==
    CASE g = "jekyll" -> "build-jekyll"
      [] g = "hugo"   -> "build-hugo"
      [] g = "static" -> "build-static"
      [] OTHER        -> "none"

\* the build engine selected by GENERATOR: the task to run, "none" when the
\* build already ran in the federalist script, "invalid" for the else branch
GeneratorTask(g) ==
    CASE g = "jekyll" -> "build-jekyll"
      [] g = "hugo"   -> "build-hugo"
      [] g = "static" -> "build-static"
      [] g \in {"node.js", "script only"} -> "none"
      [] OTHER        -> "invalid"

\* a dispatch that forgets jekyll's --config
GeneratorFlagsNoConfig(g) ==
    CASE g \in {"jekyll", "hugo"} -> BaseFlags
      [] OTHER                     -> {}

\* a dispatch that hands build_flags to every build engine
GeneratorFlagsAll(g) ==
    CASE g = "jekyll" -> BaseFlags \cup {"--config"}
      [] OTHER        -> BaseFlags

\* the flags the selected build engine is run with
GeneratorFlags(g) ==
    CASE g = "jekyll" -> BaseFlags \cup {"--config"}
      [] g = "hugo"   -> BaseFlags
      [] OTHER        -> {}

\* a pipeline that does not inspect fetch_repo's return code
AfterFetchIgnoresCode(rc) == "build_script"

\* where control goes after fetch_repo returned rc
AfterFetch(rc) == IF rc # 0 THEN "fetch_failed" ELSE "build_script"

\* a main() that arms the deadline without the processing notification
AfterSetupSkipsProcessing == "with_enter"

\* where main() starts once setup is done: the try block
AfterSetup == "try"

\* a try whose catch-all clause comes first: a timeout is reported as an error
HandlerCatchAllFirst(cls) ==
    CASE cls = "SystemExit" -> "done"
      [] OTHER              -> "except_Exception"

\* a try without the catch-all clause
HandlerNoCatchAll(cls) ==
    CASE cls = "TimeoutException" -> "except_TimeoutException"
      [] cls = "UnexpectedExit"   -> "except_UnexpectedExit"
      [] OTHER                    -> "done"

\* the except clause of main()'s try that takes an exception of class cls;
\* "done" when none does (SystemExit is not an Exception)
Handler(cls) ==
    CASE cls = "TimeoutException" -> "except_TimeoutException"
      [] cls = "UnexpectedExit"   -> "except_UnexpectedExit"
      [] cls = "SystemExit"       -> "done"
      [] OTHER                    -> "except_Exception"

----------------------------------------------------------------------------
(* History *)

Ev(op, arg) == [op |-> op, arg |-> arg]

Placeholder == "[REDACTED]"

\* the redaction filter of the logging subsystem: every occurrence of a
\* registered private value is replaced by a fixed placeholder
Redact(text, secrets) ==
    [i \in DOMAIN text |->
        IF \E k \in DOMAIN secrets : secrets[k] = text[i] THEN Placeholder ELSE text[i]]

\* a line written through a logger obtained from get_logger, after
\* init_logging(priv_vals, ...)
Log(level, text) == Ev("log", [level |-> level, text |-> Redact(text, priv_vals)])

\* run_task routes the stage's stdout and stderr to the logger
StreamToLogger(level, line) == Log(level, line)

\* what a stage may print: a plain line, or its environment with every
\* credential and user value in it
StageOutputs ==
    {<<"built">>,
     <<"env", AWS_ACCESS_KEY_ID, AWS_SECRET_ACCESS_KEY, GITHUB_TOKEN>> \o decrypted_uevs}

Stages == {"fetch_repo", "run", "publish"}

Terminals == {"post_build_complete", "post_build_error", "post_build_timeout"}

Idx(op) == {i \in DOMAIN trace : trace[i].op = op}

Count(op) == Cardinality(Idx(op))

TerminalIdx == {i \in DOMAIN trace : trace[i].op \in Terminals}

StageIdx == {i \in DOMAIN trace : trace[i].op \in Stages}

RunIdx(task) == {i \in Idx("run") : trace[i].arg.task = task}

GeneratorRunIdx == {i \in Idx("run") : trace[i].arg.task # "run-federalist-script"}

ErrorMsgs == {trace[i].arg : i \in Idx("post_build_error")}

Contains(msg, text) == \E i \in DOMAIN msg : msg[i] = text

----------------------------------------------------------------------------
(* Initial state: main() is entered with the environment set *)

MainStart ==
    /\ decrypted_uevs = <<>>
    /\ priv_vals = <<>>
    /\ pc = "setup"
    /\ timer = "unarmed"
    /\ inflight = "none"
    /\ return_code = <<>>
    /\ exc = NoExc
    /\ finished = <<>>
    /\ trace = <<>>
    /\ outcome = "running"

\* one fixed environment, for the runs that look at the entry script only
MainFixed ==
    /\ GENERATOR = "static"
    /\ USER_ENVIRONMENT_VARIABLES = <<>>
    /\ GITHUB_TOKEN = ""
    /\ MainStart

\* one fixed, valid BuildRequest, already handed to build()
SanFixed ==
    /\ params = [k \in {"branch", "owner", "repository", "user_environment_variables"}
                    |-> <<"a">>]
    /\ kwargs = params
    /\ warned = {}
    /\ san_pc = "built"

\* one fixed value, already through the shell
QuoteFixed ==
    /\ q_value = <<"a">>
    /\ q_sanitized = <<"a">>
    /\ q_command = <<"a", " ", "a">>
    /\ q_use = "direct"
    /\ q_lex = [mode |-> "plain", cur |-> <<"a">>, open |-> TRUE, acc |-> << <<"a">> >>]
    /\ q_i = 3
    /\ q_tokens = << <<"a">>, <<"a">> >>
    /\ q_pc = "parsed"

Init ==
    /\ GENERATOR \in Generators
    /\ USER_ENVIRONMENT_VARIABLES \in SeqsUpTo(Ciphertexts, MaxUevs)
    /\ GITHUB_TOKEN \in Tokens
    /\ MainStart
    /\ SanFixed
    /\ QuoteFixed

----------------------------------------------------------------------------
(* Raising inside the try block: leaving the `with Timeout` scope cancels   *)
(* the alarm (stopit's __exit__), then the matching except clause runs;     *)
(* an exception no clause matches leaves main().                            *)

Raise(e) ==
    /\ exc' = e
    /\ trace' = Append(trace, Ev("raise", [by |-> inflight, exc |-> e]))
    /\ inflight' = "none"
    /\ timer' = IF e.cls = "TimeoutException" THEN "fired"
                ELSE IF timer = "armed" THEN "cancelled" ELSE timer
    /\ pc' = Handler(e.cls)
    /\ outcome' = IF Handler(e.cls) = "done"
                  THEN (IF e.cls = "SystemExit" THEN "exit1" ELSE "raised")
                  ELSE outcome

\* positions inside the `with Timeout(...)` block
InScope == {"fetch", "fetching", "fetch_failed", "fetch_error_sending", "exit",
            "build_script", "script_running", "dispatch", "generator_running",
            "publish", "publishing", "log_total", "complete_sending",
            "with_exit"}

----------------------------------------------------------------------------
(* Setup, before the try block *)

\* decrypt every user environment variable, init_logging, get_logger
Setup ==
    /\ pc = "setup"
    /\ ~DecryptFails(USER_ENVIRONMENT_VARIABLES)
    /\ decrypted_uevs' = [i \in DOMAIN USER_ENVIRONMENT_VARIABLES |->
                             decrypt(USER_ENVIRONMENT_VARIABLES[i])]
    /\ priv_vals' = private_values(decrypted_uevs')
    /\ pc' = AfterSetup
    /\ UNCHANGED <<env, timer, inflight, return_code, exc, finished, trace, outcome>>

\* decrypt raises: it is called before the try block, so main() is left
SetupDecryptFails ==
    /\ pc = "setup"
    /\ DecryptFails(USER_ENVIRONMENT_VARIABLES)
    /\ exc' = DecryptionError
    /\ trace' = Append(trace, Ev("raise", [by |-> "decrypt", exc |-> DecryptionError]))
    /\ pc' = "done"
    /\ outcome' = "raised"
    /\ UNCHANGED <<env, decrypted_uevs, priv_vals, timer, inflight, return_code, finished>>

----------------------------------------------------------------------------
(* The try block *)

PostBuildProcessing ==
    /\ pc = "try"
    /\ trace' = Append(trace, Ev("post_build_processing", <<>>))
    /\ inflight' = "post_build_processing"
    /\ pc' = "processing_sending"
    /\ UNCHANGED <<env, decrypted_uevs, priv_vals, timer, return_code, exc, finished, outcome>>

ProcessingReturns ==
    /\ pc = "processing_sending"
    /\ inflight' = "none"
    /\ pc' = "with_enter"
    /\ UNCHANGED <<env, decrypted_uevs, priv_vals, timer, return_code, exc, finished, trace, outcome>>

ProcessingRaises ==
    /\ pc = "processing_sending"
    /\ Raise(NotifierError)
    /\ UNCHANGED <<env, decrypted_uevs, priv_vals, return_code, finished>>

\* with Timeout(TIMEOUT_SECONDS, swallow_exc=False): arm the alarm, then the
\* first log line of the block
EnterTimeout ==
    /\ pc = "with_enter"
    /\ timer' = "armed"
    /\ trace' = Append(trace, Log("info", <<"Running build for owner/repo/branch">>))
    /\ pc' = "fetch"
    /\ UNCHANGED <<env, decrypted_uevs, priv_vals, inflight, return_code, exc, finished, outcome>>

FetchRepo ==
    /\ pc = "fetch"
    /\ trace' = Append(trace, Ev("fetch_repo", <<>>))
    /\ inflight' = "fetch_repo"
    /\ pc' = "fetching"
    /\ UNCHANGED <<env, decrypted_uevs, priv_vals, timer, return_code, exc, finished, outcome>>

FetchReturns ==
    /\ pc = "fetching"
    /\ \E rc \in ReturnCodes :
          /\ return_code' = <<rc>>
          /\ pc' = AfterFetch(rc)
          /\ finished' = IF rc = 0 THEN Append(finished, "fetch_repo") ELSE finished
    /\ inflight' = "none"
    /\ UNCHANGED <<env, decrypted_uevs, priv_vals, timer, exc, trace, outcome>>

\* if return_code != 0: LOGGER.error(msg); post_build_error(..., msg)
FetchFailed ==
    /\ pc = "fetch_failed"
    /\ trace' = trace \o <<Log("error", FetchMsg), Ev("post_build_error", FetchMsg)>>
    /\ inflight' = "post_build_error"
    /\ pc' = "fetch_error_sending"
    /\ UNCHANGED <<env, decrypted_uevs, priv_vals, timer, return_code, exc, finished, outcome>>

FetchErrorReturns ==
    /\ pc = "fetch_error_sending"
    /\ inflight' = "none"
    /\ pc' = "exit"
    /\ UNCHANGED <<env, decrypted_uevs, priv_vals, timer, return_code, exc, finished, trace, outcome>>

FetchErrorRaises ==
    /\ pc = "fetch_error_sending"
    /\ Raise(NotifierError)
    /\ UNCHANGED <<env, decrypted_uevs, priv_vals, return_code, finished>>

\* exit(1)
Exit ==
    /\ pc = "exit"
    /\ Raise(SystemExit)
    /\ UNCHANGED <<env, decrypted_uevs, priv_vals, return_code, finished>>

\* run('run-federalist-script', build_flags)
RunFederalistScript ==
    /\ pc = "build_script"
    /\ trace' = Append(trace, Ev("run", [task |-> "run-federalist-script",
                                         flags |-> BaseFlags]))
    /\ inflight' = "run"
    /\ pc' = "script_running"
    /\ UNCHANGED <<env, decrypted_uevs, priv_vals, timer, return_code, exc, finished, outcome>>

ScriptReturns ==
    /\ pc = "script_running"
    /\ finished' = Append(finished, "run-federalist-script")
    /\ \E out \in StageOutputs : trace' = Append(trace, StreamToLogger("info", out))
    /\ inflight' = "none"
    /\ pc' = "dispatch"
    /\ UNCHANGED <<env, decrypted_uevs, priv_vals, timer, return_code, exc, outcome>>

\* the if/elif chain on GENERATOR: the three build engines
BuildGenerator ==
    /\ pc = "dispatch"
    /\ GeneratorTask(GENERATOR) \notin {"none", "invalid"}
    /\ trace' = Append(trace, Ev("run", [task |-> GeneratorTask(GENERATOR),
                                         flags |-> GeneratorFlags(GENERATOR)]))
    /\ inflight' = "run"
    /\ pc' = "generator_running"
    /\ UNCHANGED <<env, decrypted_uevs, priv_vals, timer, return_code, exc, finished, outcome>>

GeneratorReturns ==
    /\ pc = "generator_running"
    /\ finished' = Append(finished, GeneratorTask(GENERATOR))
    /\ \E out \in StageOutputs : trace' = Append(trace, StreamToLogger("info", out))
    /\ inflight' = "none"
    /\ pc' = "publish"
    /\ UNCHANGED <<env, decrypted_uevs, priv_vals, timer, return_code, exc, outcome>>

\* node.js / script only
BuildAlreadyRan ==
    /\ pc = "dispatch"
    /\ GeneratorTask(GENERATOR) = "none"
    /\ trace' = Append(trace, Log("info", <<"build already ran in 'npm run federalist'">>))
    /\ pc' = "publish"
    /\ UNCHANGED <<env, decrypted_uevs, priv_vals, timer, inflight, return_code, exc, finished, outcome>>

\* else: raise ValueError
InvalidGenerator ==
    /\ pc = "dispatch"
    /\ GeneratorTask(GENERATOR) = "invalid"
    /\ Raise(ValueError(GENERATOR))
    /\ UNCHANGED <<env, decrypted_uevs, priv_vals, return_code, finished>>

Publish ==
    /\ pc = "publish"
    /\ trace' = Append(trace, Ev("publish", <<>>))
    /\ inflight' = "publish"
    /\ pc' = "publishing"
    /\ UNCHANGED <<env, decrypted_uevs, priv_vals, timer, return_code, exc, finished, outcome>>

PublishReturns ==
    /\ pc = "publishing"
    /\ finished' = Append(finished, "publish")
    /\ inflight' = "none"
    /\ pc' = "log_total"
    /\ UNCHANGED <<env, decrypted_uevs, priv_vals, timer, return_code, exc, trace, outcome>>

\* a build or publish stage raises
StageRaises ==
    /\ pc \in {"script_running", "generator_running", "publishing"}
    /\ \E e \in StageErrors : Raise(e)
    /\ UNCHANGED <<env, decrypted_uevs, priv_vals, return_code, finished>>

\* LOGGER.info('Total build time ...'); post_build_complete(...)
PostBuildComplete ==
    /\ pc = "log_total"
    /\ trace' = trace \o <<Log("info", <<"Total build time: ", "delta">>),
                           Ev("post_build_complete", <<>>)>>
    /\ inflight' = "post_build_complete"
    /\ pc' = "complete_sending"
    /\ UNCHANGED <<env, decrypted_uevs, priv_vals, timer, return_code, exc, finished, outcome>>

CompleteReturns ==
    /\ pc = "complete_sending"
    /\ inflight' = "none"
    /\ pc' = "with_exit"
    /\ UNCHANGED <<env, decrypted_uevs, priv_vals, timer, return_code, exc, finished, trace, outcome>>

CompleteRaises ==
    /\ pc = "complete_sending"
    /\ Raise(NotifierError)
    /\ UNCHANGED <<env, decrypted_uevs, priv_vals, return_code, finished>>

\* the end of the with block: the alarm is cancelled and main() returns
ExitTimeout ==
    /\ pc = "with_exit"
    /\ timer' = IF timer = "armed" THEN "cancelled" ELSE timer
    /\ pc' = "done"
    /\ outcome' = "returned"
    /\ UNCHANGED <<env, decrypted_uevs, priv_vals, inflight, return_code, exc, finished, trace>>

\* SIGALRM: the handler raises TimeoutException in the main thread, at
\* whatever point of the with block it has reached
TimeoutFires ==
    /\ timer = "armed"
    /\ pc \in InScope
    /\ Raise(TimeoutException)
    /\ UNCHANGED <<env, decrypted_uevs, priv_vals, return_code, finished>>

----------------------------------------------------------------------------
(* The except clauses *)

ExceptTimeoutException ==
    /\ pc = "except_TimeoutException"
    /\ trace' = trace \o <<Log("warning", <<"Build(", BUILD_INFO, ") has timed out">>),
                           Ev("post_build_timeout", <<>>)>>
    /\ inflight' = "post_build_timeout"
    /\ pc' = "handler_sending"
    /\ UNCHANGED <<env, decrypted_uevs, priv_vals, timer, return_code, exc, finished, outcome>>

ExceptUnexpectedExit ==
    /\ pc = "except_UnexpectedExit"
    /\ trace' = trace \o
          <<Log("warning", <<"Exception raised during build(", BUILD_INFO, "):", Str(exc)>>),
            Ev("post_build_error", <<Str(exc)>>)>>
    /\ inflight' = "post_build_error"
    /\ pc' = "handler_sending"
    /\ UNCHANGED <<env, decrypted_uevs, priv_vals, timer, return_code, exc, finished, outcome>>

ExceptException ==
    /\ pc = "except_Exception"
    /\ trace' = trace \o
          <<Log("warning", <<"Unexpected exception raised during build(", BUILD_INFO,
                             "): ", Str(exc)>>),
            Ev("post_build_error", GenericMsg(BUILD_INFO, Str(exc)))>>
    /\ inflight' = "post_build_error"
    /\ pc' = "handler_sending"
    /\ UNCHANGED <<env, decrypted_uevs, priv_vals, timer, return_code, exc, finished, outcome>>

HandlerReturns ==
    /\ pc = "handler_sending"
    /\ inflight' = "none"
    /\ pc' = "done"
    /\ outcome' = "returned"
    /\ UNCHANGED <<env, decrypted_uevs, priv_vals, timer, return_code, exc, finished, trace>>

\* a notifier call made in an except clause raises: no clause of the same
\* try catches it, main() is left
HandlerRaises ==
    /\ pc = "handler_sending"
    /\ inflight' = "none"
    /\ exc' = NotifierError
    /\ trace' = Append(trace, Ev("raise", [by |-> inflight, exc |-> NotifierError]))
    /\ pc' = "done"
    /\ outcome' = "raised"
    /\ UNCHANGED <<env, decrypted_uevs, priv_vals, timer, return_code, finished>>

----------------------------------------------------------------------------

Next ==
    \/ Setup
    \/ SetupDecryptFails
    \/ PostBuildProcessing
    \/ ProcessingReturns
    \/ ProcessingRaises
    \/ EnterTimeout
    \/ FetchRepo
    \/ FetchReturns
    \/ FetchFailed
    \/ FetchErrorReturns
    \/ FetchErrorRaises
    \/ Exit
    \/ RunFederalistScript
    \/ ScriptReturns
    \/ BuildGenerator
    \/ GeneratorReturns
    \/ BuildAlreadyRan
    \/ InvalidGenerator
    \/ Publish
    \/ PublishReturns
    \/ StageRaises
    \/ PostBuildComplete
    \/ CompleteReturns
    \/ CompleteRaises
    \/ ExitTimeout
    \/ TimeoutFires
    \/ ExceptTimeoutException
    \/ ExceptUnexpectedExit
    \/ ExceptException
    \/ HandlerReturns
    \/ HandlerRaises

Spec == Init /\ [][Next]_vars

----------------------------------------------------------------------------
(* The entry script (src/main.py): from the BuildRequest to build() with kwargs *)

\* JSON null
Null == <<"None">>

\* names a BuildRequest may carry, and the values it may give them
ParamNames == {"branch", "BRANCH", "owner", "repository",
               "user_environment_variables", "colour"}

ParamValues == {Null, <<"a">>, <<";">>}

\* inspect.getfullargspec(build)[0]: the parameter names of build(); the
\* script reads kwargs['branch'] and the like, so they are lower-case
build_arguments == {"branch", "owner", "repository", "generator",
                    "user_environment_variables"}

\* str.lower, on the names above
Lower(k) == IF k = "BRANCH" THEN "branch" ELSE k

\* the names the dict comprehension keeps
Retained(ps) == {k \in DOMAIN ps : ps[k] # Null /\ k \in build_arguments}

\* shlex.quote's safe characters: [A-Za-z0-9_@%+=:,./-]
Safe(c) == c \in {"a", "=", "-"}

RECURSIVE EscapeQuotes(_)
\* s.replace("'", "'\"'\"'")
EscapeQuotes(v) ==
    IF v = <<>> THEN <<>>
    ELSE (IF Head(v) = "'" THEN <<"'", "\"", "'", "\"", "'">> ELSE <<Head(v)>>)
            \o EscapeQuotes(Tail(v))

\* a quote that wraps the value without escaping the quotes inside it
quoteNaive(v) == <<"'">> \o v \o <<"'">>

\* shlex.quote
quote(v) ==
    IF v = <<>> THEN <<"'", "'">>
    ELSE IF \A i \in DOMAIN v : Safe(v[i]) THEN v
    ELSE <<"'">> \o EscapeQuotes(v) \o <<"'">>

ParamInit ==
    /\ params \in UNION {[K -> ParamValues] : K \in SUBSET ParamNames}
    /\ kwargs = <<>>
    /\ warned = {}
    /\ san_pc = "start"
    /\ MainFixed
    /\ QuoteFixed

\* lines 48-54: warn about the names build() does not take, keep the rest
FilterParams ==
    /\ san_pc = "start"
    /\ warned' = {k \in DOMAIN params : k \notin build_arguments}
    /\ kwargs' = [n \in {Lower(k) : k \in Retained(params)} |->
                     params[CHOOSE k \in Retained(params) : Lower(k) = n]]
    /\ san_pc' = "filtered"
    /\ UNCHANGED <<params, mainvars, qvars>>

\* lines 56-58: kwargs['user_environment_variables'], parsed when a string
ParseUevs ==
    /\ san_pc = "filtered"
    /\ san_pc' = IF "user_environment_variables" \in DOMAIN kwargs
                 THEN "parsed" ELSE "KeyError"
    /\ UNCHANGED <<params, kwargs, warned, mainvars, qvars>>

\* lines 60-62: quote branch, owner and repository
QuoteIdentifiers ==
    /\ san_pc = "parsed"
    /\ IF {"branch", "owner", "repository"} \subseteq DOMAIN kwargs
       THEN /\ kwargs' = [n \in DOMAIN kwargs |->
                             IF n \in {"branch", "owner", "repository"}
                             THEN quote(kwargs[n]) ELSE kwargs[n]]
            /\ san_pc' = "quoted"
       ELSE /\ kwargs' = kwargs
            /\ san_pc' = "KeyError"
    /\ UNCHANGED <<params, warned, mainvars, qvars>>

\* line 67: build() with kwargs
Build ==
    /\ san_pc = "quoted"
    /\ san_pc' = "built"
    /\ UNCHANGED <<params, kwargs, warned, mainvars, qvars>>

ParamNext == FilterParams \/ ParseUevs \/ QuoteIdentifiers \/ Build

ParamSpec == ParamInit /\ [][ParamNext]_vars

----------------------------------------------------------------------------
(* A value on its way into a command line *)

Chars == {"a", " ", "'", "\"", ";", "\\"}

\* the word the shell makes of an unquoted ;
Operator == <<"operator ;">>

\* the word left open by a quote that is never closed
Unterminated == <<"unterminated quote">>

\* the shell's word splitting, one character at a time.  st.mode is the
\* quoting in force ("esc" and "desc": a backslash was just read, outside
\* quotes and inside double quotes), st.cur the word being read (st.open says
\* there is one), st.acc the words read so far
LexStart == [mode |-> "plain", cur |-> <<>>, open |-> FALSE, acc |-> <<>>]

LexStep(st, c) ==
    LET flushed == IF st.open THEN Append(st.acc, st.cur) ELSE st.acc
        add(m)  == [st EXCEPT !.mode = m, !.cur = Append(st.cur, c), !.open = TRUE]
        to(m)   == [st EXCEPT !.mode = m, !.open = TRUE]
    IN  CASE st.mode = "single" -> IF c = "'" THEN to("plain") ELSE add("single")
          [] st.mode = "double" ->
                IF c = "\"" THEN to("plain")
                ELSE IF c = "\\" THEN to("desc")
                ELSE add("double")
          [] st.mode = "desc" ->
                IF c \in {"\"", "\\"} THEN add("double")
                ELSE [st EXCEPT !.mode = "double", !.cur = st.cur \o <<"\\", c>>]
          [] st.mode = "esc" -> add("plain")
          [] OTHER ->
                IF c = " "
                THEN [mode |-> "plain", cur |-> <<>>, open |-> FALSE, acc |-> flushed]
                ELSE IF c = ";"
                THEN [mode |-> "plain", cur |-> <<>>, open |-> FALSE,
                      acc |-> Append(flushed, Operator)]
                ELSE IF c = "'" THEN to("single")
                ELSE IF c = "\"" THEN to("double")
                ELSE IF c = "\\" THEN to("esc")
                ELSE add("plain")

\* the end of the command line
LexEnd(st) ==
    CASE st.mode = "plain" -> IF st.open THEN Append(st.acc, st.cur) ELSE st.acc
      [] st.mode = "esc"   -> Append(st.acc, Append(st.cur, "\\"))
      [] OTHER             -> Append(st.acc, Unterminated)

\* the program name of the command line, and a flag of run_task
Program == <<"a">>

Flag == <<"-", "-", "a">>

QuoteInit ==
    /\ q_value \in SeqsUpTo(Chars, MaxLen)
    /\ q_sanitized = <<>>
    /\ q_command = <<>>
    /\ q_use = "none"
    /\ q_lex = LexStart
    /\ q_i = 0
    /\ q_tokens = <<>>
    /\ q_pc = "raw"
    /\ MainFixed
    /\ SanFixed

\* src/main.py lines 60-62: kwargs['branch'] = shlex.quote(kwargs['branch'])
QuoteValue ==
    /\ q_pc = "raw"
    /\ q_sanitized' = quote(q_value)
    /\ q_pc' = "sanitized"
    /\ UNCHANGED <<q_value, q_command, q_use, q_lex, q_i, q_tokens, mainvars, sanvars>>

\* the sanitized value is put into a command line as it is
Interpolate ==
    /\ q_pc = "sanitized"
    /\ q_command' = Program \o <<" ">> \o q_sanitized
    /\ q_use' = "direct"
    /\ q_pc' = "rendered"
    /\ UNCHANGED <<q_value, q_sanitized, q_lex, q_i, q_tokens, mainvars, sanvars>>

\* run_task lines 31-38: f"{flag}={shlex.quote(val)}", val being the value
\* main() read from the environment, that is the sanitized one
RenderFlag ==
    /\ q_pc = "sanitized"
    /\ q_command' = Program \o <<" ">> \o Flag \o <<"=">> \o quote(q_sanitized)
    /\ q_use' = "flag"
    /\ q_pc' = "rendered"
    /\ UNCHANGED <<q_value, q_sanitized, q_lex, q_i, q_tokens, mainvars, sanvars>>

\* run_task line 48: ctx.run(command): the shell starts reading the command
RunCommand ==
    /\ q_pc = "rendered"
    /\ q_lex' = LexStart
    /\ q_i' = 0
    /\ q_pc' = "reading"
    /\ UNCHANGED <<q_value, q_sanitized, q_command, q_use, q_tokens, mainvars, sanvars>>

\* the shell reads the next character
ShellReads ==
    /\ q_pc = "reading"
    /\ q_i < Len(q_command)
    /\ q_lex' = LexStep(q_lex, q_command[q_i + 1])
    /\ q_i' = q_i + 1
    /\ UNCHANGED <<q_value, q_sanitized, q_command, q_use, q_tokens, q_pc, mainvars, sanvars>>

\* the shell reaches the end of the command: its words
ShellSplits ==
    /\ q_pc = "reading"
    /\ q_i = Len(q_command)
    /\ q_tokens' = LexEnd(q_lex)
    /\ q_pc' = "parsed"
    /\ UNCHANGED <<q_value, q_sanitized, q_command, q_use, q_lex, q_i, mainvars, sanvars>>

QuoteNext ==
    \/ QuoteValue
    \/ Interpolate
    \/ RenderFlag
    \/ RunCommand
    \/ ShellReads
    \/ ShellSplits

QuoteSpec == QuoteInit /\ [][QuoteNext]_vars

----------------------------------------------------------------------------
(* Properties of a run *)

RaiseIdx(cls) == {i \in Idx("raise") : trace[i].arg.exc.cls = cls}

\* the alarm fired while a call in `calls` was in progress ("none": between calls)
TimedOutIn(calls) == \E t \in RaiseIdx("TimeoutException") : trace[t].arg.by \in calls

FetchFailedRc == return_code # <<>> /\ return_code[1] # 0

ProcessingRaised == \E r \in Idx("raise") : trace[r].arg.by = "post_build_processing"

ValidGenerators == {"jekyll", "hugo", "static", "node.js", "script only"}

\* C1: in a run of main() at most one terminal notification (complete,
\* error, timeout) is sent, whenever the deadline fires and whichever
\* notifier call raises.
C1_AtMostOneTerminal == Cardinality(TerminalIdx) <= 1

\* C2: every run that has ended has sent at least one terminal notification,
\* whatever the kind of failure.
C2_AtLeastOneTerminal == pc = "done" => Cardinality(TerminalIdx) >= 1

\* C3: if the deadline fires while a stage is in flight, that stage is
\* interrupted (it never finishes), no stage is started afterwards,
\* post_build_timeout is called, and neither post_build_complete nor
\* post_build_error is called in the run.
C3_TimeoutInStage ==
    \A t \in RaiseIdx("TimeoutException") :
        trace[t].arg.by \in Stages =>
            /\ inflight \notin Stages
            /\ Len(finished) = Cardinality(StageIdx) - 1
            /\ \A i \in StageIdx : i < t
            /\ Count("post_build_complete") = 0
            /\ Count("post_build_error") = 0
            /\ pc # "except_TimeoutException" => Count("post_build_timeout") = 1

C3_Witness ==
    /\ pc = "done"
    /\ TimedOutIn({"publish"})
    /\ Count("post_build_timeout") = 1

C5_CompleteOnlyAfterSuccess ==
    \A c \in Idx("post_build_complete") :
        /\ return_code = <<0>>
        /\ GENERATOR \in ValidGenerators
        /\ Len(finished) = Cardinality(StageIdx)
        /\ finished[1] = "fetch_repo"
        /\ finished[2] = "run-federalist-script"
        /\ finished[Len(finished)] = "publish"
        /\ Len(finished) = IF GENERATOR \in {"node.js", "script only"} THEN 3 ELSE 4
        /\ \A i \in StageIdx : i < c
        /\ \A t \in RaiseIdx("TimeoutException") : t > c
        /\ c > 1
        /\ trace[c - 1].op = "log"
        /\ trace[c - 1].arg.text[1] = "Total build time: "

C5_Witness ==
    /\ pc = "done"
    /\ GENERATOR = "hugo"
    /\ outcome = "returned"
    /\ Count("post_build_complete") = 1

\* C6: with an invalid GENERATOR no build engine stage runs and publish is
\* never invoked; when everything else is valid (fetch and the build script
\* succeeded inside the deadline) no stage is run twice and exactly one
\* terminal notification is sent, an error whose message is not the
\* fetch-failure message.
C6_InvalidGenerator ==
    GENERATOR \notin ValidGenerators =>
        /\ GeneratorRunIdx = {}
        /\ Count("publish") = 0
        /\ Count("post_build_complete") = 0
        /\ (/\ pc = "done"
            /\ finished = <<"fetch_repo", "run-federalist-script">>
            /\ RaiseIdx("TimeoutException") = {}) =>
                /\ Count("fetch_repo") = 1
                /\ Count("run") = 1
                /\ RaiseIdx("ValueError") # {}
                /\ Count("post_build_error") = 1
                /\ TerminalIdx = Idx("post_build_error")
                /\ FetchMsg \notin ErrorMsgs

C6_Witness ==
    /\ pc = "done"
    /\ GENERATOR = "bogus"
    /\ finished = <<"fetch_repo", "run-federalist-script">>
    /\ RaiseIdx("ValueError") # {}
    /\ Count("post_build_error") = 1

C8_ProcessingFailureIgnored ==
    (pc = "done" /\ ProcessingRaised) =>
        /\ timer # "unarmed"
        /\ Count("fetch_repo") = 1
        /\ GenericMsg(BUILD_INFO, NotifierError.text) \notin ErrorMsgs

\* C8 amended: if post_build_processing raises, the run does not proceed: the
\* deadline is never armed, no stage is invoked, and the failure is reported
\* by one post_build_error call carrying the generic contact-support message,
\* the only terminal notification of the run.
C8_ProcessingFailureIsError ==
    ProcessingRaised =>
        /\ timer = "unarmed"
        /\ StageIdx = {}
        /\ pc # "except_Exception" =>
              /\ Count("post_build_error") = 1
              /\ ErrorMsgs = {GenericMsg(BUILD_INFO, NotifierError.text)}
              /\ TerminalIdx = Idx("post_build_error")

C8_Witness ==
    /\ pc = "done"
    /\ ProcessingRaised
    /\ outcome = "returned"
    /\ Count("post_build_error") = 1

\* C9: in a run that gets past setup the processing notification is sent
\* exactly once, and before the deadline is armed, before fetch_repo starts
\* and before any terminal notification.
C9_ProcessingFirst ==
    /\ Count("post_build_processing") <= 1
    /\ (pc \notin {"setup", "try"} /\ RaiseIdx("DecryptionError") = {}) =>
          Idx("post_build_processing") = {1}
    /\ (timer # "unarmed" \/ StageIdx # {} \/ TerminalIdx # {}) =>
          /\ Idx("post_build_processing") = {1}
          /\ inflight # "post_build_processing"

C9_Witness ==
    /\ pc = "done"
    /\ timer = "fired"
    /\ Count("post_build_processing") = 1
    /\ Count("post_build_timeout") = 1

\* C10: the message of an error notification is fixed by the failure class:
\* the fixed message for a non-zero fetch return, whatever the code; the
\* stringified detail for an UnexpectedExit; for any other exception the
\* generic contact-support message, which does not contain the exception's
\* text.
C10_ErrorMessageByClass ==
    /\ \A i \in Idx("post_build_error") :
          IF i > 2 /\ trace[i - 2].op = "raise"
          THEN LET e == trace[i - 2].arg.exc
               IN  IF e.cls = "UnexpectedExit"
                   THEN trace[i].arg = <<e.text>>
                   ELSE /\ Len(trace[i].arg) = 3
                        /\ trace[i].arg[2] = BUILD_INFO
                        /\ ~Contains(trace[i].arg, e.text)
                        /\ trace[i].arg # FetchMsg
                        /\ \A j \in Idx("post_build_error") :
                              (j > 2 /\ trace[j - 2].op = "raise"
                                 /\ trace[j - 2].arg.exc.cls # "UnexpectedExit")
                              => trace[j].arg = trace[i].arg
          ELSE FetchFailedRc /\ trace[i].arg = FetchMsg
    /\ \A r \in Idx("raise") :
          (trace[r].arg.exc.cls \in {"UnexpectedExit", "ValueError", "Exception"}
              /\ Len(trace) >= r + 2 /\ outcome = "returned") =>
              trace[r + 2].op = "post_build_error"

C10_Witness ==
    /\ pc = "done"
    /\ GENERATOR = "bogus"
    /\ RaiseIdx("ValueError") # {}
    /\ ErrorMsgs = {GenericMsg(BUILD_INFO, "")}

\* some user environment variable cannot be decrypted
CorruptInput ==
    \E i \in DOMAIN USER_ENVIRONMENT_VARIABLES : USER_ENVIRONMENT_VARIABLES[i] = "corrupt"

\* C11: if decrypting any user environment variable fails, the run ends
\* before any stage starts: no fetch, build script, build engine or publish
\* is invoked, the deadline is never armed, and no decrypted value (partial
\* or not) is kept or handed on.
C11_DecryptFailureBeforeStages ==
    CorruptInput =>
        /\ StageIdx = {}
        /\ Idx("log") = {}
        /\ timer = "unarmed"
        /\ decrypted_uevs = <<>>
        /\ priv_vals = <<>>
        /\ pc \in {"setup", "done"}
        /\ pc = "done" => outcome = "raised" /\ exc = DecryptionError

C11_Witness ==
    /\ pc = "done"
    /\ Len(USER_ENVIRONMENT_VARIABLES) = 2
    /\ USER_ENVIRONMENT_VARIABLES[1] = "enc:s1"
    /\ USER_ENVIRONMENT_VARIABLES[2] = "corrupt"
    /\ RaiseIdx("DecryptionError") # {}

\* the values that must never be logged
SecretSet ==
    {AWS_ACCESS_KEY_ID, AWS_SECRET_ACCESS_KEY}
        \cup (IF GITHUB_TOKEN # "" THEN {GITHUB_TOKEN} ELSE {})
        \cup {decrypted_uevs[i] : i \in DOMAIN decrypted_uevs}

\* C12: no log line of a run contains a member of the SecretSet (the AWS
\* keys, a non-empty GitHub token, every decrypted user value): the set is
\* registered before the first log line and before the first stage, and the
\* orchestrator's lines and the streamed stage output are both redacted.
C12_NoSecretInLogs ==
    /\ \A i \in Idx("log") : \A x \in SecretSet : ~Contains(trace[i].arg.text, x)
    /\ (Idx("log") # {} \/ StageIdx # {}) =>
          \A x \in SecretSet : \E k \in DOMAIN priv_vals : priv_vals[k] = x

C12_Witness ==
    /\ pc = "done"
    /\ GITHUB_TOKEN # ""
    /\ Len(decrypted_uevs) = 2
    /\ \E i \in Idx("log") :
          /\ trace[i].arg.text[1] = "env"
          /\ \A k \in 2..Len(trace[i].arg.text) : trace[i].arg.text[k] = Placeholder
    /\ \E i \in Idx("log") :
          /\ trace[i].arg.level = "warning"
          /\ Contains(trace[i].arg.text, Placeholder)

\* C13 (state part): the list handed to logging is the AWS access key, the
\* AWS secret key, the token if and only if it is non-empty, then every
\* decrypted user value in input order, none omitted.
C13_Ordered ==
    pc \notin {"setup"} /\ ~CorruptInput =>
        LET n == Len(USER_ENVIRONMENT_VARIABLES)
            t == IF GITHUB_TOKEN = "" THEN 0 ELSE 1
        IN  /\ Len(priv_vals) = 2 + t + n
            /\ priv_vals[1] = AWS_ACCESS_KEY_ID
            /\ priv_vals[2] = AWS_SECRET_ACCESS_KEY
            /\ t = 1 => priv_vals[3] = GITHUB_TOKEN
            /\ \A k \in DOMAIN priv_vals : priv_vals[k] # ""
            /\ \A i \in 1..n : priv_vals[2 + t + i] = decrypt(USER_ENVIRONMENT_VARIABLES[i])

\* C13 (step part): once handed to logging the list is never modified.
C13_Frozen == priv_vals # <<>> => priv_vals' = priv_vals

\* C13: private_values returns the ordered SecretSet and the list is not
\* modified for the rest of the run.
C13_PrivateValues == []C13_Ordered /\ [][C13_Frozen]_vars

C13_Witness ==
    /\ pc = "done"
    /\ GITHUB_TOKEN = ""
    /\ Len(priv_vals) = 4
    /\ priv_vals[3] = "s2"
    /\ priv_vals[4] = "s1"

IsStage(e) == e.op \in Stages

StageName(e) == IF e.op = "run" THEN e.arg.task ELSE e.op

\* the stages started so far, in order
Started ==
    LET st == SelectSeq(trace, IsStage)
    IN  [i \in DOMAIN st |-> StageName(st[i])]

BuildEngines == {"build-jekyll", "build-hugo", "build-static"}

\* C16: stages run one at a time in the order fetch, build script, build
\* engine, publish: a stage starts only after every earlier one returned
\* successfully, and no stage is invoked twice.
C16_Sequential ==
    /\ Len(Started) <= 4
    /\ Len(Started) \in {Len(finished), Len(finished) + 1}
    /\ finished = SubSeq(Started, 1, Len(finished))
    /\ inflight \in Stages => Len(Started) = Len(finished) + 1
    /\ \A i, j \in DOMAIN Started : Started[i] = Started[j] => i = j
    /\ Len(Started) >= 1 => Started[1] = "fetch_repo"
    /\ Len(Started) >= 2 => Started[2] = "run-federalist-script" /\ return_code = <<0>>
    /\ Len(Started) >= 3 => Started[3] \in BuildEngines \cup {"publish"}
    /\ Len(Started) >= 4 => Started[3] \in BuildEngines /\ Started[4] = "publish"

C16_Witness ==
    /\ pc = "done"
    /\ Started = <<"fetch_repo", "run-federalist-script", "build-jekyll", "publish">>
    /\ finished = Started

\* C17: after a successful fetch the build script is the first build stage,
\* whatever the generator; then at most one build engine is run, the one
\* GENERATOR selects: build-jekyll with the base flags and --config,
\* build-hugo with the base flags, build-static with no flags, none for
\* node.js, script only or an invalid value.
C17_Dispatch ==
    /\ \A i \in RunIdx("run-federalist-script") :
          trace[i].arg.flags = BaseFlags /\ return_code = <<0>>
    /\ Len(Started) >= 2 => Started[2] = "run-federalist-script"
    /\ pc \in {"script_running", "dispatch", "generator_running", "publish", "publishing"} =>
          Cardinality(RunIdx("run-federalist-script")) = 1
    /\ Cardinality(GeneratorRunIdx) <= 1
    /\ \A i \in GeneratorRunIdx :
          /\ \E k \in DOMAIN finished : finished[k] = "run-federalist-script"
          /\ \/ /\ GENERATOR = "jekyll"
                /\ trace[i].arg.task = "build-jekyll"
                /\ trace[i].arg.flags = BaseFlags \cup {"--config"}
             \/ /\ GENERATOR = "hugo"
                /\ trace[i].arg.task = "build-hugo"
                /\ trace[i].arg.flags = BaseFlags
             \/ /\ GENERATOR = "static"
                /\ trace[i].arg.task = "build-static"
                /\ trace[i].arg.flags = {}
    /\ GENERATOR \notin {"jekyll", "hugo", "static"} => GeneratorRunIdx = {}
    /\ (GENERATOR \in {"jekyll", "hugo", "static"}
          /\ (pc = "generator_running" \/ Count("publish") > 0)) =>
          Cardinality(GeneratorRunIdx) = 1
    /\ (GENERATOR \in {"node.js", "script only"} /\ pc = "publish") =>
          finished = <<"fetch_repo", "run-federalist-script">>

C17_Witness ==
    /\ pc = "done"
    /\ GENERATOR = "jekyll"
    /\ Count("publish") = 1
    /\ \E i \in RunIdx("build-jekyll") : "--config" \in trace[i].arg.flags

\* C18: the deadline is armed only after setup and the processing
\* notification, and it never fires during setup, during the processing
\* notification or while a terminal notification is being sent (the claim's
\* stronger clause, that it fires only while a stage is in flight, fails as
\* well: the alarm can also fire between two calls of the with block).
C18_DeadlineOnlyAroundStages ==
    /\ timer # "unarmed" => Idx("post_build_processing") = {1} /\ pc # "setup"
    /\ \A t \in RaiseIdx("TimeoutException") :
          trace[t].arg.by \notin Terminals \cup {"post_build_processing", "decrypt"}

\* C19: no failure propagates out of main(): a run that has ended has
\* returned normally, or has exited with status 1 after fetch_repo returned
\* non-zero and the error notification was sent.
C19_NothingPropagates ==
    pc = "done" =>
        /\ outcome \in {"returned", "exit1"}
        /\ outcome = "exit1" => FetchFailedRc /\ FetchMsg \in ErrorMsgs

\* C20: once publish has returned successfully the only terminal
\* notification of the run is the success notification: neither a deadline
\* firing after publish returned nor a failure to deliver the success
\* notification makes the run be reported as timeout or error.
C20_PublishedMeansComplete ==
    (pc = "done" /\ \E k \in DOMAIN finished : finished[k] = "publish") =>
        /\ Count("post_build_complete") = 1
        /\ TerminalIdx = Idx("post_build_complete")

\* C14: the entry script keeps a parameter exactly when its name matches,
\* whatever its case, a parameter name of build() and its value is not null;
\* a name build() does not take is dropped with a warning, and dropping it
\* never makes the run fail.
C14_CaseInsensitiveFilter ==
    san_pc # "start" =>
        /\ \A k \in DOMAIN params :
              (Lower(k) \in build_arguments /\ params[k] # Null)
                  => Lower(k) \in DOMAIN kwargs
        /\ \A n \in DOMAIN kwargs :
              \E k \in DOMAIN params :
                  Lower(k) = n /\ Lower(k) \in build_arguments /\ params[k] # Null
        /\ \A k \in DOMAIN params : Lower(k) \notin build_arguments => k \in warned
        /\ san_pc = "KeyError" =>
              \E n \in {"branch", "owner", "repository", "user_environment_variables"} :
                  \A k \in DOMAIN params : Lower(k) = n => params[k] = Null

\* C15: whatever characters a branch, owner or repository value contains,
\* the sanitized value put into a command line is read by the shell as one
\* word equal to the original value, and a flag rendered by run_task as
\* flag=value is read as exactly one word, the flag with the value it was
\* given.
C15_OneLiteralToken ==
    q_pc = "parsed" =>
        /\ Len(q_tokens) = 2
        /\ q_tokens[1] = Program
        /\ q_use = "direct" => q_tokens[2] = q_value
        /\ q_use = "flag" => q_tokens[2] = Flag \o <<"=">> \o q_sanitized

C15_Witness ==
    /\ q_pc = "parsed"
    /\ q_use = "direct"
    /\ q_value = <<"'", ";", " ">>
    /\ q_tokens = <<Program, q_value>>

====
